---- MODULE Spec2Model ----
(***************************************************************************)
(* Model of frontend/src/App.js: the React component App that edits an     *)
(* experiment form (a name, a description and an order-indexed list of     *)
(* techniques with a 2x2 confusion matrix each), validates it, POSTs it to *)
(* the /api/experiments endpoint and lists the stored experiments.         *)
(*                                                                         *)
(* JavaScript strings are sequences of one-character strings, so that      *)
(* trim, parseInt and parseFloat are computed and not assumed.  JavaScript *)
(* array indices are 0-based: index i of the code is element i + 1 of the  *)
(* TLA+ sequence.  A number that is not an integer (a confidence level, a  *)
(* statistic) is an exact fraction [num, den] with den > 0.                *)
(***************************************************************************)
EXTENDS Integers, Sequences, FiniteSets, TLC

VARIABLES
    activeTab,          \* useState("input")
    experiments,        \* useState([]): the history listing last received
    currentExperiment,  \* useState({experiment_name, description, techniques})
    loading,            \* useState(false)
    results,            \* useState(null)
    mounted,            \* whether the mount effect (useEffect, []) has run
    alerts,             \* the alert() dialogs raised by the latest handler step
    posts,              \* POST /experiments requests in flight
    gets,               \* GET /experiments requests in flight
    store,              \* the persistence store behind the API
    nPosts,             \* number of POST requests issued so far
    nGets,              \* number of GET requests issued so far
    applied,            \* the GET requests whose response set experiments, in order
    nAdded              \* number of techniques added so far (labels entries)

vars == <<activeTab, experiments, currentExperiment, loading, results, mounted,
          alerts, posts, gets, store, nPosts, nGets, applied, nAdded>>

(***************************************************************************)
(* Bounds of the exploration.                                              *)
(***************************************************************************)
MaxTechniques == 2   \* longest techniques list explored
MaxSubmits == 1      \* POST requests issued in one behaviour
MaxResubmits == 2    \* POST requests issued in the resubmission specification
MaxAdds == 3         \* labelled additions in the order specification
MaxEvalLen == 2      \* longest techniques list handed to the engine alone

(***************************************************************************)
(* Strings.                                                                *)
(***************************************************************************)
WhiteSpace == {" ", "\t", "\n"}

Digits == {"0", "1", "2", "3", "4", "5", "6", "7", "8", "9"}

DigitValue(c) ==
    CASE c = "0" -> 0 [] c = "1" -> 1 [] c = "2" -> 2 [] c = "3" -> 3
      [] c = "4" -> 4 [] c = "5" -> 5 [] c = "6" -> 6 [] c = "7" -> 7
      [] c = "8" -> 8 [] c = "9" -> 9

RECURSIVE trimStart(_)
trimStart(s) ==
    IF s = <<>> THEN s
    ELSE IF Head(s) \in WhiteSpace THEN trimStart(Tail(s)) ELSE s

RECURSIVE trimEnd(_)
trimEnd(s) ==
    IF s = <<>> THEN s
    ELSE IF s[Len(s)] \in WhiteSpace THEN trimEnd(SubSeq(s, 1, Len(s) - 1)) ELSE s

\* a trim that strips nothing
trimNothing(s) == s

\* String.prototype.trim
trim(s) == trimEnd(trimStart(s))

\* the longest prefix of s made of digits
RECURSIVE digitPrefix(_)
digitPrefix(s) ==
    IF s = <<>> \/ Head(s) \notin Digits THEN <<>>
    ELSE <<Head(s)>> \o digitPrefix(Tail(s))

\* the value of a sequence of digits, most significant first
RECURSIVE digitsValue(_)
digitsValue(d) ==
    IF d = <<>> THEN 0
    ELSE 10 * digitsValue(SubSeq(d, 1, Len(d) - 1)) + DigitValue(d[Len(d)])

RECURSIVE pow10(_)
pow10(k) == IF k = 0 THEN 1 ELSE 10 * pow10(k - 1)

RECURSIVE gcd(_, _)
gcd(a, b) == IF b = 0 THEN a ELSE gcd(b, a % b)

NaN == [nan |-> TRUE, num |-> 0, den |-> 1]

Number(n, d) == [nan |-> FALSE, num |-> n \div gcd(IF n < 0 THEN -n ELSE n, d),
                 den |-> d \div gcd(IF n < 0 THEN -n ELSE n, d)]

\* parseInt(value): leading white space, an optional sign, then the longest run
\* of decimal digits; NaN when there is no digit
parseInt(value) ==
    LET s    == trimStart(value)
        neg  == s # <<>> /\ Head(s) = "-"
        body == IF s # <<>> /\ Head(s) \in {"-", "+"} THEN Tail(s) ELSE s
        d    == digitPrefix(body)
    IN  IF d = <<>> THEN NaN
        ELSE Number(IF neg THEN -digitsValue(d) ELSE digitsValue(d), 1)

\* parseInt where parseFloat is meant
parseFloatAsInt(value) == parseInt(value)

\* parseFloat(value): as parseInt, with an optional fraction after the digits
parseFloat(value) ==
    LET s    == trimStart(value)
        neg  == s # <<>> /\ Head(s) = "-"
        body == IF s # <<>> /\ Head(s) \in {"-", "+"} THEN Tail(s) ELSE s
        d    == digitPrefix(body)
        rest == SubSeq(body, Len(d) + 1, Len(body))
        f    == IF rest # <<>> /\ Head(rest) = "." THEN digitPrefix(Tail(rest)) ELSE <<>>
        n    == digitsValue(d) * pow10(Len(f)) + digitsValue(f)
    IN  IF d = <<>> /\ f = <<>> THEN NaN
        ELSE Number(IF neg THEN -n ELSE n, pow10(Len(f)))

\* x || 0 on the result of parseInt: NaN and 0 are falsy
orZero(x) == IF x.nan \/ x.num = 0 THEN 0 ELSE x.num


(***************************************************************************)
(* The form: currentExperiment and the four updaters.                      *)
(***************************************************************************)
Null == [null |-> TRUE]

\* line 21; the model draws technique names from the first two
qPCR == <<"q", "P", "C", "R">>
RPA == <<"R", "P", "A">>
AVAILABLE_TECHNIQUES == {qPCR, RPA}

\* the SelectItem values of the confidence level Select
ConfidenceItems == {<<"0", ".", "9", "0">>, <<"0", ".", "9", "5">>, <<"0", ".", "9", "9">>}

MatrixFields == {"true_positive", "false_positive", "false_negative", "true_negative"}

\* the technique addTechnique creates; label is the model's tag of the entry
\* (the number of the addition), which no code reads
NewTechnique(label) ==
    [technique_name   |-> <<>>,
     matrix           |-> [true_positive |-> 0, false_positive |-> 0,
                           true_negative |-> 0, false_negative |-> 0],
     confidence_level |-> Number(95, 100),
     added            |-> label]

\* the new entry put first
addTechniqueFirst(prev, label) ==
    [prev EXCEPT !.techniques = <<NewTechnique(label)>> \o @]

addTechnique(prev, label) ==
    [prev EXCEPT !.techniques = @ \o <<NewTechnique(label)>>]

\* Array.prototype.filter((_, i) => i !== index), from element i on
RECURSIVE filterNotIndex(_, _, _)
filterNotIndex(techs, index, i) ==
    IF i > Len(techs) THEN <<>>
    ELSE (IF i - 1 # index THEN <<techs[i]>> ELSE <<>>)
         \o filterNotIndex(techs, index, i + 1)

removeTechnique(prev, index) ==
    [prev EXCEPT !.techniques = filterNotIndex(@, index, 1)]

updateTechnique(prev, index, field, value) ==
    [prev EXCEPT !.techniques =
        [i \in 1..Len(@) |->
            IF i - 1 = index THEN [@[i] EXCEPT ![field] = value] ELSE @[i]]]

\* the matrix rebuilt from the new count alone, the other counts not copied
updateMatrixNoSpread(prev, techniqueIndex, field, value) ==
    [prev EXCEPT !.techniques =
        [i \in 1..Len(@) |->
            IF i - 1 = techniqueIndex
            THEN [@[i] EXCEPT !.matrix =
                    [NewTechnique(0).matrix EXCEPT ![field] = orZero(parseInt(value))]]
            ELSE @[i]]]

updateMatrix(prev, techniqueIndex, field, value) ==
    [prev EXCEPT !.techniques =
        [i \in 1..Len(@) |->
            IF i - 1 = techniqueIndex
            THEN [@[i] EXCEPT !.matrix = [@ EXCEPT ![field] = orZero(parseInt(value))]]
            ELSE @[i]]]

(***************************************************************************)
(* submitExperiment's validation: the alerts it raises, in order.          *)
(***************************************************************************)
MissingName == "MissingNameError"
InsufficientTechniques == "InsufficientTechniquesError"
MissingTechniqueName == "MissingTechniqueNameError"
PostFailed == "PostFailed"

\* the for loop of lines 96-101: returns at the first blank technique name
RECURSIVE checkTechniqueNames(_)
checkTechniqueNames(techs) ==
    IF techs = <<>> THEN <<>>
    ELSE IF trim(Head(techs).technique_name) = <<>> THEN <<MissingTechniqueName>>
    ELSE checkTechniqueNames(Tail(techs))

\* the technique count checked before the experiment name
validateCountFirst(exp) ==
    IF Len(exp.techniques) < 2 THEN <<InsufficientTechniques>>
    ELSE IF trim(exp.experiment_name) = <<>> THEN <<MissingName>>
    ELSE checkTechniqueNames(exp.techniques)

validate(exp) ==
    IF trim(exp.experiment_name) = <<>> THEN <<MissingName>>
    ELSE IF Len(exp.techniques) < 2 THEN <<InsufficientTechniques>>
    ELSE checkTechniqueNames(exp.techniques)

(***************************************************************************)
(* The engine behind POST /experiments (spec.md sections 4.1 to 4.3 and 7): *)
(* the repository's frontend holds no code of it.  Statistics are exact     *)
(* fractions; the interval estimates are not modelled.                     *)
(***************************************************************************)
InvalidMatrix == "InvalidMatrixError"

Frac(n, d) == IF d = 0 THEN [num |-> 0, den |-> 1] ELSE [num |-> n, den |-> d]

Greater(a, b) == a.num * b.den > b.num * a.den

SameValue(a, b) == a.num * b.den = b.num * a.den

Total(m) == m.true_positive + m.false_positive + m.false_negative + m.true_negative

ValidMatrix(m) ==
    /\ \A f \in MatrixFields : m[f] >= 0
    /\ Total(m) > 0

\* chance agreement times N * N
ChanceAgreement(m) ==
    (m.true_positive + m.false_positive) * (m.true_positive + m.false_negative)
    + (m.false_negative + m.true_negative) * (m.false_positive + m.true_negative)

cohen_kappa(m) ==
    LET N == Total(m)
        E == ChanceAgreement(m)
    IN  IF N * N = E THEN Frac(0, 1)
        ELSE Frac(N * (m.true_positive + m.true_negative) - E, N * N - E)

\* compute(matrix, confidence_level), point estimates only
compute(m) ==
    [sensitivity |-> Frac(m.true_positive, m.true_positive + m.false_negative),
     specificity |-> Frac(m.true_negative, m.true_negative + m.false_positive),
     ppv         |-> Frac(m.true_positive, m.true_positive + m.false_positive),
     npv         |-> Frac(m.true_negative, m.true_negative + m.false_negative),
     accuracy    |-> Frac(m.true_positive + m.true_negative, Total(m)),
     prevalence  |-> Frac(m.true_positive + m.false_negative, Total(m))]

TechniqueResult(tech) ==
    [technique_name |-> tech.technique_name,
     stats          |-> compute(tech.matrix),
     cohen_kappa    |-> cohen_kappa(tech.matrix)]

MetricOf(r, metric) == IF metric = "cohen_kappa" THEN r.cohen_kappa ELSE r.stats[metric]

\* scan in submission order from entry i on; b is the best entry so far and is
\* replaced only by a strictly greater value
\* the scan replacing the best entry on a tie as well
RECURSIVE bestFromLast(_, _, _, _)
bestFromLast(rs, metric, b, i) ==
    IF i > Len(rs) THEN b
    ELSE IF ~Greater(MetricOf(rs[b], metric), MetricOf(rs[i], metric))
         THEN bestFromLast(rs, metric, i, i + 1)
         ELSE bestFromLast(rs, metric, b, i + 1)

RECURSIVE bestFrom(_, _, _, _)
bestFrom(rs, metric, b, i) ==
    IF i > Len(rs) THEN b
    ELSE IF Greater(MetricOf(rs[i], metric), MetricOf(rs[b], metric))
         THEN bestFrom(rs, metric, i, i + 1)
         ELSE bestFrom(rs, metric, b, i + 1)

best(rs, metric) == rs[bestFrom(rs, metric, 1, 2)].technique_name

comparison_summary(rs) ==
    [best_sensitivity |-> best(rs, "sensitivity"),
     best_specificity |-> best(rs, "specificity"),
     best_accuracy    |-> best(rs, "accuracy"),
     best_kappa       |-> best(rs, "cohen_kappa")]

\* the first error of evaluate's validation, <<>> when the request is valid
evaluateErrors(req) ==
    IF validate(req) # <<>> THEN validate(req)
    ELSE IF \E i \in 1..Len(req.techniques) : ~ValidMatrix(req.techniques[i].matrix)
         THEN <<InvalidMatrix>>
         ELSE <<>>

\* evaluate(experiment_name, description, techniques) of a valid request
evaluate(req) ==
    LET rs == [i \in 1..Len(req.techniques) |-> TechniqueResult(req.techniques[i])]
    IN  [experiment_name    |-> req.experiment_name,
         description        |-> req.description,
         techniques_results |-> rs,
         comparison_summary |-> comparison_summary(rs)]

\* the persistence store assigns the identifier, in creation order
Stored(result, id) ==
    [id                 |-> id,
     experiment_name    |-> result.experiment_name,
     description        |-> result.description,
     techniques_results |-> result.techniques_results,
     comparison_summary |-> result.comparison_summary]

(***************************************************************************)
(* Initial state: the useState initial values, before the mount effect.    *)
(***************************************************************************)
Init ==
    /\ activeTab = "input"
    /\ experiments = <<>>
    /\ currentExperiment = [experiment_name |-> <<>>, description |-> <<>>,
                            techniques |-> <<>>]
    /\ loading = FALSE
    /\ results = Null
    /\ mounted = FALSE
    /\ alerts = <<>>
    /\ posts = {}
    /\ gets = {}
    /\ store = <<>>
    /\ nPosts = 0
    /\ nGets = 0
    /\ applied = <<>>
    /\ nAdded = 0

network == <<posts, gets, store, nPosts, nGets, applied>>

\* loadExperiments up to its await: the GET request is issued
loadExperiments ==
    /\ gets' = gets \cup {[id |-> nGets + 1, phase |-> "sent", data |-> <<>>]}
    /\ nGets' = nGets + 1

\* useEffect(() => { loadExperiments(); }, [])
Mount ==
    /\ ~mounted
    /\ mounted' = TRUE
    /\ loadExperiments
    /\ UNCHANGED <<activeTab, experiments, currentExperiment, loading, results,
                   alerts, posts, store, nPosts, applied, nAdded>>

\* the input tab's content is rendered, so its handlers can run
InputTabShown == mounted /\ activeTab = "input"

\* an edit of the form: only currentExperiment changes
Edit(next) ==
    /\ InputTabShown
    /\ currentExperiment' = next
    /\ alerts' = <<>>
    /\ UNCHANGED <<activeTab, experiments, loading, results, mounted, network, nAdded>>

\* the indices the technique cards are rendered for
Rendered == 0..(Len(currentExperiment.techniques) - 1)

\* the indices the updaters are tried with: the rendered ones and one past them
Indices == 0..Len(currentExperiment.techniques)

\* onChange of the experiment_name Input
ChangeExperimentName(values) ==
    \E v \in values : Edit([currentExperiment EXCEPT !.experiment_name = v])

\* onChange of the description Textarea
ChangeDescription(values) ==
    \E v \in values : Edit([currentExperiment EXCEPT !.description = v])

\* onClick of the add button
AddTechnique ==
    /\ Len(currentExperiment.techniques) < MaxTechniques
    /\ Edit(addTechnique(currentExperiment, 0))

\* onClick of the add button, the new entry labelled with its addition number
AddLabelledTechnique ==
    /\ Len(currentExperiment.techniques) < MaxTechniques
    /\ nAdded < MaxAdds
    /\ InputTabShown
    /\ currentExperiment' = addTechnique(currentExperiment, nAdded + 1)
    /\ nAdded' = nAdded + 1
    /\ alerts' = <<>>
    /\ UNCHANGED <<activeTab, experiments, loading, results, mounted, network>>

\* onClick of a card's remove button
RemoveTechnique ==
    \E index \in Rendered : Edit(removeTechnique(currentExperiment, index))

\* onValueChange of a card's technique name Select
SelectTechniqueName(names) ==
    \E index \in Indices, value \in names :
        Edit(updateTechnique(currentExperiment, index, "technique_name", value))

\* onValueChange of a card's confidence level Select
SelectConfidence(items) ==
    \E index \in Indices, value \in items :
        Edit(updateTechnique(currentExperiment, index, "confidence_level",
                             parseFloat(value)))

\* onChange of one of a card's four count Inputs
ChangeMatrix(fields, values) ==
    \E index \in Indices, field \in fields, value \in values :
        Edit(updateMatrix(currentExperiment, index, field, value))

\* onValueChange of the Tabs
SetActiveTab(tabs) ==
    /\ mounted
    /\ \E t \in tabs : activeTab' = t
    /\ alerts' = <<>>
    /\ UNCHANGED <<experiments, currentExperiment, loading, results, mounted,
                   network, nAdded>>

\* the submit button is rendered and enabled
\* a submit button that is never disabled
SubmitShownWhileLoading ==
    /\ InputTabShown
    /\ Len(currentExperiment.techniques) > 0

SubmitShown ==
    /\ InputTabShown
    /\ Len(currentExperiment.techniques) > 0
    /\ ~loading

\* submitExperiment up to its await
submitExperimentUpTo(limit) ==
    /\ SubmitShown
    /\ IF validate(currentExperiment) # <<>>
       THEN /\ alerts' = validate(currentExperiment)
            /\ UNCHANGED <<activeTab, experiments, currentExperiment, loading,
                           results, mounted, network, nAdded>>
       ELSE /\ nPosts < limit
            /\ loading' = TRUE
            /\ posts' = posts \cup {[id |-> nPosts + 1, req |-> currentExperiment,
                                     phase |-> "sent", data |-> Null]}
            /\ nPosts' = nPosts + 1
            /\ alerts' = <<>>
            /\ UNCHANGED <<activeTab, experiments, currentExperiment, results,
                           mounted, gets, store, nGets, applied, nAdded>>

submitExperiment == submitExperimentUpTo(MaxSubmits)

\* a continuation that switches to the results tab without setResults
PostResolvedTabOnly ==
    \E p \in posts :
        /\ p.phase = "ok"
        /\ activeTab' = "results"
        /\ loadExperiments
        /\ loading' = FALSE
        /\ posts' = posts \ {p}
        /\ alerts' = <<>>
        /\ UNCHANGED <<experiments, currentExperiment, results, mounted, store,
                       nPosts, applied, nAdded>>

\* submitExperiment after its await, the request fulfilled
PostResolved ==
    \E p \in posts :
        /\ p.phase = "ok"
        /\ results' = p.data
        /\ activeTab' = "results"
        /\ loadExperiments
        /\ loading' = FALSE
        /\ posts' = posts \ {p}
        /\ alerts' = <<>>
        /\ UNCHANGED <<experiments, currentExperiment, mounted, store, nPosts,
                       applied, nAdded>>

\* a rejection handler that also switches to the results tab
PostRejectedShowsResults ==
    \E p \in posts :
        /\ alerts' = <<PostFailed>>
        /\ loading' = FALSE
        /\ activeTab' = "results"
        /\ posts' = posts \ {p}
        /\ UNCHANGED <<experiments, currentExperiment, results, mounted,
                       gets, store, nPosts, nGets, applied, nAdded>>

\* a rejection handler without the finally block
PostRejectedKeepsLoading ==
    \E p \in posts :
        /\ alerts' = <<PostFailed>>
        /\ posts' = posts \ {p}
        /\ UNCHANGED <<activeTab, experiments, currentExperiment, loading, results,
                       mounted, gets, store, nPosts, nGets, applied, nAdded>>

\* submitExperiment after its await, the request rejected: an error response,
\* or no response at all
PostRejected ==
    \E p \in posts :
        /\ alerts' = <<PostFailed>>
        /\ loading' = FALSE
        /\ posts' = posts \ {p}
        /\ UNCHANGED <<activeTab, experiments, currentExperiment, results, mounted,
                       gets, store, nPosts, nGets, applied, nAdded>>

\* loadExperiments after its await, the request fulfilled
GetResolved ==
    \E g \in gets :
        /\ g.phase = "ok"
        /\ experiments' = g.data
        /\ applied' = Append(applied, g.id)
        /\ gets' = gets \ {g}
        /\ alerts' = <<>>
        /\ UNCHANGED <<activeTab, currentExperiment, loading, results, mounted,
                       posts, store, nPosts, nGets, nAdded>>

\* loadExperiments after its await, the request rejected: console.error only
GetRejected ==
    \E g \in gets :
        /\ gets' = gets \ {g}
        /\ alerts' = <<>>
        /\ UNCHANGED <<activeTab, experiments, currentExperiment, loading, results,
                       mounted, posts, store, nPosts, nGets, applied, nAdded>>

client == <<activeTab, experiments, currentExperiment, loading, results, mounted,
            alerts, nAdded>>

\* the API handles a POST: it stores and returns the result, or answers an error
ServePost ==
    \E p \in posts :
        /\ p.phase = "sent"
        /\ IF evaluateErrors(p.req) = <<>>
           THEN LET created == Stored(evaluate(p.req), Len(store) + 1)
                IN  /\ store' = Append(store, created)
                    /\ posts' = (posts \ {p}) \cup {[p EXCEPT !.phase = "ok",
                                                             !.data = created]}
           ELSE /\ posts' = (posts \ {p}) \cup {[p EXCEPT !.phase = "error"]}
                /\ store' = store
        /\ UNCHANGED <<client, gets, nPosts, nGets, applied>>

\* the API handles a GET: it returns the listing, in creation order
ServeGet ==
    \E g \in gets :
        /\ g.phase = "sent"
        /\ gets' = (gets \ {g}) \cup {[g EXCEPT !.phase = "ok", !.data = store]}
        /\ UNCHANGED <<client, posts, store, nPosts, nGets, applied>>

(***************************************************************************)
(* Specifications.  Every one starts from Init and runs the handlers of    *)
(* the component; they differ in the inputs the handlers are given.        *)
(***************************************************************************)
TabInputs == {"input", "history"}

\* Spec: the whole component with its API, on a small form
Next ==
    \/ Mount
    \/ ChangeExperimentName({<<"a">>})
    \/ AddTechnique
    \/ RemoveTechnique
    \/ SelectTechniqueName({qPCR})
    \/ ChangeMatrix({"true_positive"}, {<<"1">>})
    \/ SetActiveTab(TabInputs)
    \/ submitExperiment
    \/ PostResolved
    \/ PostRejected
    \/ GetResolved
    \/ GetRejected
    \/ ServePost
    \/ ServeGet

Spec == Init /\ [][Next]_vars

\* SpecValidate: the names that validation reads, and submission
NameInputs == {<<" ">>, <<"a">>, <<" ", "a", "\t">>}

NextValidate ==
    \/ Mount
    \/ ChangeExperimentName(NameInputs)
    \/ AddTechnique
    \/ RemoveTechnique
    \/ SelectTechniqueName(AVAILABLE_TECHNIQUES)
    \/ submitExperiment
    \/ PostRejected

SpecValidate == Init /\ [][NextValidate]_vars

\* SpecForm: every field of the form, no submission
CountInputs == {<<"-", "1">>, <<"1", "x">>, <<"x">>, <<>>}

NextForm ==
    \/ Mount
    \/ ChangeExperimentName({<<"a">>})
    \/ ChangeDescription({<<"d">>})
    \/ AddTechnique
    \/ RemoveTechnique
    \/ SelectConfidence({<<"0", ".", "9", "9">>})
    \/ ChangeMatrix({"true_positive", "false_negative"}, CountInputs)

SpecForm == Init /\ [][NextForm]_vars

\* SpecConfidence: the confidence level Select, and submission
NextConfidence ==
    \/ Mount
    \/ ChangeExperimentName({<<"a">>})
    \/ AddTechnique
    \/ RemoveTechnique
    \/ SelectTechniqueName({qPCR})
    \/ SelectConfidence(ConfidenceItems)
    \/ submitExperiment
    \/ PostRejected

SpecConfidence == Init /\ [][NextConfidence]_vars

\* SpecOrder: labelled additions, removals and updates, and submission
NextOrder ==
    \/ Mount
    \/ ChangeExperimentName({<<"a">>})
    \/ AddLabelledTechnique
    \/ RemoveTechnique
    \/ SelectTechniqueName({qPCR})
    \/ ChangeMatrix({"true_positive"}, {<<"1">>})
    \/ submitExperiment
    \/ PostRejected

SpecOrder == Init /\ [][NextOrder]_vars

\* prepareRadarData: one row per metric; each technique of the result writes
\* its value under the key of its name, a later write replacing an earlier one
RadarMetrics == <<"Sensitivity", "Specificity", "Accuracy", "Kappa">>

radarValue(tech, metric) ==
    LET v == CASE metric = "Sensitivity" -> tech.stats.sensitivity
               [] metric = "Specificity" -> tech.stats.specificity
               [] metric = "Accuracy"    -> tech.stats.accuracy
               [] metric = "Kappa"       -> tech.cohen_kappa
    IN  [num |-> v.num * 100, den |-> v.den]

RECURSIVE radarRow(_, _, _)
radarRow(data, techs, metric) ==
    IF techs = <<>> THEN data
    ELSE LET tech == Head(techs)
             next == [k \in DOMAIN data \cup {tech.technique_name} |->
                         IF k = tech.technique_name THEN radarValue(tech, metric)
                         ELSE data[k]]
         IN  radarRow(next, Tail(techs), metric)

prepareRadarData ==
    IF results = Null THEN <<>>
    ELSE [i \in 1..Len(RadarMetrics) |->
             [metric |-> RadarMetrics[i],
              values |-> radarRow(<<>>, results.techniques_results, RadarMetrics[i])]]

\* SpecResubmit: submissions one after another, the history never fetched
NextResubmit ==
    \/ Mount
    \/ ChangeExperimentName({<<"a">>})
    \/ AddTechnique
    \/ RemoveTechnique
    \/ SelectTechniqueName({qPCR})
    \/ ChangeMatrix({"true_positive"}, {<<"1">>})
    \/ SetActiveTab({"input"})
    \/ submitExperimentUpTo(MaxResubmits)
    \/ PostResolved
    \/ PostRejected
    \/ ServePost

SpecResubmit == Init /\ [][NextResubmit]_vars

\* SpecEval: the engine alone, on a submitted request of every shape
LAMP == <<"L", "A", "M", "P">>

NameAt(i) == IF i = 1 THEN qPCR ELSE IF i = 2 THEN RPA ELSE LAMP

EvalCounts == {0, 1, 2}

EvalMatrices ==
    [true_positive : EvalCounts, true_negative : EvalCounts,
     false_positive : {0, 1}, false_negative : {0, 1}]

\* the technique lists of n entries, named by position
EvalTechniques(n) ==
    {[i \in 1..n |-> [NewTechnique(0) EXCEPT !.technique_name = NameAt(i),
                                             !.matrix = ms[i]]] :
        ms \in [1..n -> EvalMatrices]}

InitEval ==
    /\ activeTab = "input"
    /\ experiments = <<>>
    /\ \E n \in 2..MaxEvalLen : \E ts \in EvalTechniques(n) :
            currentExperiment = [experiment_name |-> <<"a">>, description |-> <<>>,
                                 techniques |-> ts]
    /\ loading = TRUE
    /\ results = Null
    /\ mounted = TRUE
    /\ alerts = <<>>
    /\ posts = {[id |-> 1, req |-> currentExperiment, phase |-> "sent", data |-> Null]}
    /\ gets = {}
    /\ store = <<>>
    /\ nPosts = 1
    /\ nGets = 1
    /\ applied = <<1>>
    /\ nAdded = 0

NextEval ==
    \/ ServePost
    \/ PostResolved
    \/ PostRejected

SpecEval == InitEval /\ [][NextEval]_vars

(***************************************************************************)
(* Claims.                                                                 *)
(***************************************************************************)
Blank(s) == \A i \in 1..Len(s) : s[i] \in WhiteSpace

Submittable(exp) ==
    /\ ~Blank(exp.experiment_name)
    /\ Len(exp.techniques) >= 2
    /\ \A i \in 1..Len(exp.techniques) : ~Blank(exp.techniques[i].technique_name)

\* C1: a POST is issued only for the form as it is at the moment of submission,
\* and only if its experiment_name is not blank, it has at least 2 techniques
\* and no technique_name is blank; so no request in flight violates any of the
\* three conditions.
C1_PostOnlyIfValid ==
    [][/\ \A p \in posts' \ posts : p.req = currentExperiment /\ Submittable(p.req)
       /\ \A p \in posts' : Submittable(p.req)]_vars

\* a request is in flight whose experiment name carries white space around it
C1_Witness ==
    \E p \in posts : p.req.experiment_name # trim(p.req.experiment_name)

\* the error of the first failing check, in the order name, count, names
FirstFailing(exp) ==
    IF Blank(exp.experiment_name) THEN MissingName
    ELSE IF Len(exp.techniques) < 2 THEN InsufficientTechniques
    ELSE MissingTechniqueName

\* C2: a submit that fails validation reports exactly one error, the one of the
\* first failing check in the order experiment name, technique count, technique
\* names, whatever else is wrong with the form.
C2_FirstFailingCheckReported ==
    alerts \notin {<<>>, <<PostFailed>>} =>
        /\ ~Submittable(currentExperiment)
        /\ alerts = <<FirstFailing(currentExperiment)>>

\* all three checks fail at once and the missing-name error is the one reported
C2_Witness ==
    /\ alerts = <<MissingName>>
    /\ Len(currentExperiment.techniques) = 1
    /\ Blank(currentExperiment.techniques[1].technique_name)

\* C3: results changes only when a POST completes successfully, and then to that
\* response; a step that raises an alert (a failed validation, a failed POST)
\* leaves results, activeTab, experiments and currentExperiment unchanged, and a
\* failed validation neither sets loading nor sends a request.
C3_NoPartialResult ==
    [][/\ results' # results =>
            \E p \in posts : p.phase = "ok" /\ results' = p.data /\ p \notin posts'
       /\ alerts' # <<>> =>
            UNCHANGED <<results, activeTab, experiments, currentExperiment>>
       /\ alerts' \notin {<<>>, <<PostFailed>>} =>
            UNCHANGED <<loading, posts, nPosts>>]_vars

\* a POST has completed successfully and its response is shown
C3_Witness ==
    /\ results # Null
    /\ posts = {}
    /\ \E i \in 1..Len(store) : store[i] = results

Requests == {p.req : p \in posts}

TechniquesOf(exp) == {exp.techniques[i] : i \in 1..Len(exp.techniques)}

\* the techniques of the form and of every request in flight
AllTechniques == UNION {TechniquesOf(exp) : exp \in Requests \cup {currentExperiment}}

\* C4: every count of every technique's matrix, in the form and in every
\* submitted request, is a non-negative integer, whatever strings updateMatrix
\* was given.
C4_CountsNonNegative ==
    \A tech \in AllTechniques : \A f \in MatrixFields : tech.matrix[f] >= 0

\* C5: a technique whose matrix has all four counts zero is rejected by the
\* validation of submitExperiment, so no request accepted for computation
\* carries such a technique.
C5_ZeroMatrixRejected ==
    \A exp \in Requests : \A tech \in TechniquesOf(exp) : Total(tech.matrix) # 0

Presets == {Number(90, 100), Number(95, 100), Number(99, 100)}

\* C6: every technique's confidence_level, in the form and in every submitted
\* request, is one of 0.90, 0.95 and 0.99.
C6_ConfidenceIsPreset ==
    \A tech \in AllTechniques : tech.confidence_level \in Presets

\* a request is in flight with a level chosen in the Select and one left at the
\* default
C6_Witness ==
    \E exp \in Requests :
        /\ exp.techniques[1].confidence_level = Number(9, 10)
        /\ exp.techniques[2].confidence_level = Number(19, 20)

Labels(exp) == [i \in 1..Len(exp.techniques) |-> exp.techniques[i].added]

Increasing(seq) == \A i, j \in 1..Len(seq) : i < j => seq[i] < seq[j]

EarliestGreatest(rs, metric) ==
    CHOOSE i \in 1..Len(rs) :
        /\ \A j \in 1..Len(rs) : ~Greater(MetricOf(rs[j], metric), MetricOf(rs[i], metric))
        /\ \A j \in 1..(i - 1) : Greater(MetricOf(rs[i], metric), MetricOf(rs[j], metric))

\* C8: each field of comparison_summary holds the name of the technique with the
\* greatest value of its metric, the earliest in submission order on a tie.
C8_BestIsEarliestGreatest ==
    results # Null =>
        LET rs == results.techniques_results
            cs == results.comparison_summary
        IN  /\ cs.best_sensitivity = rs[EarliestGreatest(rs, "sensitivity")].technique_name
            /\ cs.best_specificity = rs[EarliestGreatest(rs, "specificity")].technique_name
            /\ cs.best_accuracy = rs[EarliestGreatest(rs, "accuracy")].technique_name
            /\ cs.best_kappa = rs[EarliestGreatest(rs, "cohen_kappa")].technique_name

\* two techniques tie on accuracy and the first is reported, while the second
\* has the strictly greater sensitivity and is reported for it
C8_Witness ==
    /\ results # Null
    /\ LET rs == results.techniques_results
       IN  /\ SameValue(rs[1].stats.accuracy, rs[2].stats.accuracy)
           /\ Greater(rs[2].stats.sensitivity, rs[1].stats.sensitivity)
           /\ results.comparison_summary.best_accuracy = qPCR
           /\ results.comparison_summary.best_sensitivity = RPA

\* C9: once a submission has succeeded and every list request issued (the one
\* of the mount, the one after the submission) has completed successfully, in
\* whatever order the responses arrived, experiments is the store's listing and
\* holds the experiment just submitted.
C9_HistoryUpToDate ==
    (results # Null /\ posts = {} /\ gets = {} /\ Len(applied) = nGets) =>
        /\ experiments = store
        /\ \E i \in 1..Len(experiments) : experiments[i].id = results.id

\* the fields in which two technique entries differ
ChangedFields(a, b) ==
    {f \in {"technique_name", "confidence_level", "added"} : a[f] # b[f]}
    \cup {f \in MatrixFields : a.matrix[f] # b.matrix[f]}

\* the updaters called with an index outside the list return the form as it is
OutsideIndexIgnored(exp) ==
    \A index \in {-1, Len(exp.techniques)} :
        /\ updateTechnique(exp, index, "technique_name", qPCR) = exp
        /\ updateTechnique(exp, index, "confidence_level", Number(99, 100)) = exp
        /\ \A f \in MatrixFields : updateMatrix(exp, index, f, <<"1">>) = exp

\* C10: a step of updateTechnique or updateMatrix (a step that changes the
\* techniques and not their number) changes one field of one technique, a single
\* count when the field is in the matrix, and neither experiment_name nor
\* description; with an index outside the list nothing changes.
C10_UpdateFrame ==
    [][LET old == currentExperiment
           new == currentExperiment'
       IN  /\ OutsideIndexIgnored(old)
           /\ (Len(new.techniques) = Len(old.techniques)
               /\ new.techniques # old.techniques) =>
                 /\ new.experiment_name = old.experiment_name
                 /\ new.description = old.description
                 /\ \E i \in 1..Len(old.techniques) :
                       /\ \A j \in 1..Len(old.techniques) :
                             j # i => new.techniques[j] = old.techniques[j]
                       /\ Cardinality(ChangedFields(old.techniques[i],
                                                    new.techniques[i])) = 1]_vars

\* the second of two techniques has had two counts and its level updated, the
\* first is as addTechnique made it, and the name and the description are set
C10_Witness ==
    /\ Len(currentExperiment.techniques) = 2
    /\ currentExperiment.experiment_name = <<"a">>
    /\ currentExperiment.description = <<"d">>
    /\ currentExperiment.techniques[1] = NewTechnique(0)
    /\ currentExperiment.techniques[2].confidence_level = Number(99, 100)
    /\ currentExperiment.techniques[2].matrix.true_positive = 1
    /\ currentExperiment.techniques[2].matrix.false_negative = -1

\* C11: loading is true exactly while a POST is outstanding; it becomes true
\* only in a step that sends the POST of a form passing the three validations,
\* and the step that completes the POST, fulfilled or rejected, sets it back to
\* false, so it is never left true with no request outstanding.
C11_LoadingWhilePosting ==
    [][/\ loading' <=> posts' # {}
       /\ (~loading /\ loading') =>
            /\ Submittable(currentExperiment)
            /\ \E p \in posts' \ posts : p.req = currentExperiment
       /\ (loading /\ ~loading') => \E p \in posts : p \notin posts']_vars

\* a POST was sent and rejected, and loading is false again
C11_Witness ==
    /\ nPosts > 0
    /\ alerts = <<PostFailed>>
    /\ ~loading

\* C12: at most one POST is outstanding at any time, and the submit button is
\* enabled only when none is, so a submission starts only after the previous
\* one has completed and no two responses are pending together.
C12_OnePostOutstanding ==
    /\ Cardinality(posts) <= 1
    /\ SubmitShown => posts = {}

\* a second submission is outstanding after the first one was answered
C12_Witness ==
    /\ nPosts = 2
    /\ results # Null
    /\ Cardinality(posts) = 1

\* C13: the technique names of every submitted request are pairwise distinct,
\* and every radar row holds one value per technique of the result.
C13_DistinctNames ==
    /\ \A req \in Requests :
         \A i, j \in 1..Len(req.techniques) :
            i # j => req.techniques[i].technique_name # req.techniques[j].technique_name
    /\ \A r \in 1..Len(prepareRadarData) :
         Cardinality(DOMAIN prepareRadarData[r].values) = Len(results.techniques_results)

\* C14: the step that consumes a fulfilled POST sets results to that POST's
\* response, which is the evaluation of the form as it was when submit was
\* invoked, sets activeTab to "results", starts exactly one history reload and
\* leaves currentExperiment alone; activeTab never becomes "results" in a step
\* that leaves results null.
C14_SuccessStep ==
    [][/\ \A p \in posts :
            ((\A q \in posts' : q.id # p.id) /\ alerts' = <<>>) =>
              /\ results' = p.data
              /\ results'.experiment_name = p.req.experiment_name
              /\ results'.techniques_results =
                    [i \in 1..Len(p.req.techniques) |->
                        TechniqueResult(p.req.techniques[i])]
              /\ activeTab' = "results"
              /\ nGets' = nGets + 1
              /\ gets \subseteq gets'
              /\ Cardinality(gets' \ gets) = 1
              /\ \A g \in gets' \ gets : g.phase = "sent"
              /\ currentExperiment' = currentExperiment
       /\ (activeTab # "results" /\ activeTab' = "results") => results' # Null]_vars

\* results are shown for a request whose form has since lost or gained a
\* technique: the form was edited while the request was outstanding
C14_Witness ==
    /\ activeTab = "results"
    /\ results # Null
    /\ posts = {}
    /\ Len(results.techniques_results) # Len(currentExperiment.techniques)

====
